---------------------------- MODULE Spec2Model ----------------------------
(***************************************************************************)
(* Model of Bruteforce_password_generator.py: the permutation-index        *)
(* decoder (decode_permutation_kernel) and the chunked enumeration         *)
(* pipeline (generate_permutations_gpu driven by the __main__ loop).       *)
(*                                                                         *)
(* Two specifications are given.                                           *)
(*   Spec / FairSpec : the whole program, orchestrator plus the GPU        *)
(*                     threads of the current kernel launch, interleaved.  *)
(*   DecoderSpec     : one kernel thread run over every index of one       *)
(*                     (n, r), for the claims about the decoder as a       *)
(*                     function of (n, r, i).                              *)
(* Strings are sequences of one-character strings.                         *)
(***************************************************************************)
EXTENDS Integers, Sequences, FiniteSets, TLC

\* ------------------------------------------------------------------ bounds
MaxN == 3          \* largest alphabet size of a pipeline run
MaxLen == 3        \* largest permutation length of a pipeline run
MaxChunk == 2      \* largest chunk_size of a pipeline run
MaxTPB == 2        \* largest threads_per_block of a pipeline run
MaxDecodeN == 4    \* largest alphabet size of a decoder run
MaxSpin == 2       \* passes of the while loop followed when it makes no progress
MaxMarkerLen == 1  \* largest permutation length of a marker run

\* --------------------------------------------------------------- constants
\* A prefix of CHARS (line 10): "abcefghi..." (the source alphabet has no "d").
CodeChars == <<"a", "b", "c", "e", "f", "g", "h", "i">>

\* The number of `used` markers a thread has: cuda.local.array(63, ...)
\* (line 58). The comments of lines 11 and 57 speak of 58 characters.
UsedCapacityAsCommented == 58

UsedCapacity == 63

\* Content of a cell of a freshly allocated device array (cuda.device_array
\* does not initialise memory).
Uninit == -1

\* Result of the scan for the choice-th unused symbol when it runs past the
\* initialised markers (the while True loop has no bound of its own).
OutOfBounds == -2

VARIABLES
    \* ---- configuration (lines 10-16, 103, 158-159)
    CHARS,              \* the alphabet, a sequence of distinct symbols
    min_len, max_len,   \* the range of lengths of the __main__ loop
    chunk_size,         \* chunk_size argument of generate_permutations_gpu
    threads_per_block,  \* block width of the kernel launch
    print_flag,         \* see_passwords
    sink_faulty,        \* whether f_out.write may raise in this run
    \* ---- orchestrator (host) state
    pc,                 \* position of the host code
    r,                  \* loop variable of the __main__ for loop
    total_perms, current_offset, current_chunk_size,
    results_device,     \* the device array of the current chunk, or NoBuffer
    results_host,       \* rows of its copy on the host
    row_idx,            \* loop variable of the row loop
    sink,               \* lines appended to combinations.txt by this run
    status,             \* what was printed to the console, in order
    \* ---- device state
    threads,            \* grid index -> local state of that kernel thread
    \* ---- decoder run (DecoderSpec)
    dn, dr,             \* the (n, r) of the decoder run
    dthread,            \* local state of the single kernel thread
    drow,               \* the row it writes
    dperms              \* rows decoded so far, in index order

cfgvars == <<CHARS, min_len, max_len, chunk_size, threads_per_block,
             print_flag, sink_faulty>>
hostvars == <<pc, r, total_perms, current_offset, current_chunk_size,
              results_device, results_host, row_idx, sink, status>>
decvars == <<dn, dr, dthread, drow, dperms>>
vars == <<cfgvars, hostvars, threads, decvars>>

n == Len(CHARS)

\* A device/host array: `live` tells whether one is allocated, `data` is its
\* rows (shape[0] = Len(data)).
NoBuffer == [live |-> FALSE, data |-> <<>>]

\* ------------------------------------------------------------ permutations_count
RECURSIVE permutations_count_loop(_, _, _, _)
permutations_count_loop(nn, rr, i, total) ==
    IF i >= rr THEN total
    ELSE permutations_count_loop(nn, rr, i + 1, total * (nn - i))

\* The loop started at i = 1.
permutations_count_from_one(nn, rr) == permutations_count_loop(nn, rr, 1, 1)

\* The count of sequences with repetition, nn ** rr.
RECURSIVE power(_, _)
power(nn, rr) == IF rr <= 0 THEN 1 ELSE nn * power(nn, rr - 1)

permutations_count_power(nn, rr) == power(nn, rr)

permutations_count(nn, rr) == permutations_count_loop(nn, rr, 0, 1)

\* ------------------------------------------------------------ the kernel
\* for k in range(remaining - 1, remaining - (r - position), -1): perms_of_rest *= k
RECURSIVE perms_of_rest_loop(_, _, _)
perms_of_rest_loop(k, stop, acc) ==
    IF k <= stop THEN acc ELSE perms_of_rest_loop(k - 1, stop, acc * k)

perms_of_rest_off_by_one(remaining, rr, position) ==
    perms_of_rest_loop(remaining, remaining - (rr - position), 1)

perms_of_rest(remaining, rr, position) ==
    perms_of_rest_loop(remaining - 1, remaining - (rr - position), 1)

\* The while True scan for the choice-th unused symbol.
RECURSIVE find_unused(_, _, _, _)
find_unused(used, char_idx, found_count, choice) ==
    IF char_idx \notin DOMAIN used THEN OutOfBounds
    ELSE IF ~used[char_idx]
         THEN IF found_count = choice THEN char_idx
              ELSE find_unused(used, char_idx + 1, found_count + 1, choice)
         ELSE find_unused(used, char_idx + 1, found_count, choice)

\* Local state of a thread that has returned.
Returned ==
    [pc |-> "done", thread_id |-> 0, global_idx |-> 0, cur_index |-> 0,
     remaining |-> 0, position |-> 0, used |-> <<>>]

\* Local state of a thread that has been launched and has not run yet.
Launched == [Returned EXCEPT !.pc = "entry"]

\* The range guard of the kernel.
GuardOff(global_idx, base_idx, shape0) == FALSE

Guard(global_idx, base_idx, shape0) == global_idx >= base_idx + shape0

\* Kernel entry: the range guard and the initialisation of the locals.
KernelEntry(base_idx, grid, shape0, nn) ==
    LET global_idx == base_idx + grid IN
    IF Guard(global_idx, base_idx, shape0) THEN Returned
    ELSE [pc |-> "loop", thread_id |-> grid, global_idx |-> global_idx,
          cur_index |-> global_idx, remaining |-> nn, position |-> 0,
          used |-> [i \in 0 .. nn - 1 |-> FALSE]]

\* The quotient and the remainder exchanged.
KernelChoiceRemainder(k, rr) ==
    LET p == perms_of_rest(k.remaining, rr, k.position) IN k.cur_index % p

\* The symbol chosen by one iteration of the position loop.
KernelChoice(k, rr) ==
    LET p == perms_of_rest(k.remaining, rr, k.position) IN k.cur_index \div p

KernelCharIdxNoSkip(k, rr) == KernelChoice(k, rr)

KernelCharIdx(k, rr) == find_unused(k.used, 0, 0, KernelChoice(k, rr))

\* One iteration without `cur_index %= perms_of_rest`.
KernelPositionNoRemainder(k, rr) ==
    LET c == KernelCharIdx(k, rr)
    IN  IF c = OutOfBounds THEN [k EXCEPT !.pc = "fault"]
        ELSE [k EXCEPT !.used = [k.used EXCEPT ![c] = TRUE],
                       !.remaining = k.remaining - 1,
                       !.position = k.position + 1]

\* The locals after one iteration of the position loop.
KernelPosition(k, rr) ==
    LET p == perms_of_rest(k.remaining, rr, k.position)
        c == KernelCharIdx(k, rr)
    IN  IF c = OutOfBounds THEN [k EXCEPT !.pc = "fault"]
        ELSE [k EXCEPT !.cur_index = k.cur_index % p,
                       !.used = [k.used EXCEPT ![c] = TRUE],
                       !.remaining = k.remaining - 1,
                       !.position = k.position + 1]

\* The thread returns when the position loop is over.
KernelExit(k, rr) == IF k.pc = "loop" /\ k.position >= rr THEN Returned ELSE k

\* The marker positions the next iteration of the position loop touches:
\* the scan reads used[0 .. char_idx] and sets used[char_idx]; a scan that
\* finds no choice-th unused marker reads on past the initialised ones.
ScanTouches(k, rr) ==
    LET c == KernelCharIdx(k, rr) IN
    IF c = OutOfBounds THEN 0 .. Cardinality(DOMAIN k.used) ELSE 0 .. c

\* The marker positions the entry loop `for i in range(n): used[i] = False`
\* has written.
EntryTouches(k) == DOMAIN k.used

\* The row of `results` a thread writes.
RowOfGlobal(k) == k.global_idx

RowOf(k) == k.thread_id

\* results[row, position] = char_idx (rows and positions are 0-based in the
\* code, 1-based in the model's sequences).
WriteCell(results, row, position, char_idx) ==
    IF row + 1 \in DOMAIN results /\ position + 1 \in DOMAIN results[row + 1]
    THEN [results EXCEPT ![row + 1][position + 1] = char_idx]
    ELSE results

\* The decoder as a function: the row one thread writes for index i.
RECURSIVE decode_loop(_, _, _)
decode_loop(k, rr, row) ==
    IF k.pc # "loop" \/ k.position >= rr THEN row
    ELSE decode_loop(KernelPosition(k, rr), rr,
                     [row EXCEPT ![k.position + 1] = KernelCharIdx(k, rr)])

Decode(nn, rr, i) ==
    decode_loop(KernelEntry(i, 0, 1, nn), rr, [p \in 1 .. rr |-> Uninit])

\* ------------------------------------------------------------ host helpers
Min(a, b) == IF a <= b THEN a ELSE b

\* current_chunk_size = min(chunk_size, total_perms - current_offset)
ChunkSizeNoMin(size, total, offset) == size

ChunkSize(size, total, offset) == Min(size, total - offset)

\* blocks = (current_chunk_size + threads_per_block - 1) // threads_per_block
BlocksFloor(size, tpb) == size \div tpb

Blocks(size, tpb) == (size + tpb - 1) \div tpb

\* cuda.device_array((current_chunk_size, r), dtype=np.int32)
DeviceArray(rows, cols) ==
    [live |-> TRUE, data |-> [k \in 1 .. rows |-> [p \in 1 .. cols |-> Uninit]]]

\* perm_str = "".join(CHARS[idx] for idx in perm_indices); an index that is
\* no position of CHARS (an unwritten cell) has no defined symbol.
RowStringReversed(chars, row) ==
    [p \in 1 .. Len(row) |->
        LET idx == row[Len(row) + 1 - p] IN
        IF idx + 1 \in DOMAIN chars THEN chars[idx + 1] ELSE "?"]

RowString(chars, row) ==
    [p \in 1 .. Len(row) |->
        IF row[p] + 1 \in DOMAIN chars THEN chars[row[p] + 1] ELSE "?"]

\* The lines one call generate_permutations_gpu(rr, _, size) appends, as a
\* function of its arguments: the while loop of lines 109-138 with the rows
\* of each chunk decoded index by index.
RECURSIVE chunked_output(_, _, _, _, _)
chunked_output(chars, rr, size, offset, out) ==
    LET total == permutations_count(Len(chars), rr) IN
    IF ~(offset < total) THEN out
    ELSE LET ccs == ChunkSize(size, total, offset) IN
         chunked_output(chars, rr, size, offset + ccs,
             out \o [k \in 1 .. ccs |->
                       RowString(chars, Decode(Len(chars), rr, offset + k - 1))])

ChunkedOutput(chars, rr, size) == chunked_output(chars, rr, size, 0, <<>>)

\* What is printed: kind, and the string or the counts it shows.
Ev(kind, str, cur, tot) == [kind |-> kind, str |-> str, cur |-> cur, tot |-> tot]

\* cuda.synchronize() returns when every thread of the launch has returned.
NoBarrier == TRUE

AllReturned == \A t \in DOMAIN threads : threads[t].pc = "done"

\* while current_offset < total_perms
MoreFullChunks == current_offset + chunk_size <= total_perms

MoreChunks == current_offset < total_perms

\* The row loop `for row_idx in range(current_chunk_size)` is over.
RowsDoneEarly == row_idx >= current_chunk_size - 1

RowsDone == row_idx >= current_chunk_size

\* The offset advanced by the configured size instead of the chunk's size.
NextOffsetWholeChunk == current_offset + chunk_size

\* current_offset += current_chunk_size
NextOffsetStuck == current_offset

NextOffset == current_offset + current_chunk_size

\* ------------------------------------------------------------ initial states
DecoderIdle ==
    /\ dn = 0 /\ dr = 0 /\ dthread = Returned /\ drow = <<>> /\ dperms = <<>>

Init ==
    /\ CHARS \in {SubSeq(CodeChars, 1, k) : k \in 1 .. MaxN}
    /\ min_len \in 1 .. MaxLen
    /\ max_len \in min_len .. MaxLen
    /\ chunk_size \in 0 .. MaxChunk
    /\ threads_per_block \in 1 .. MaxTPB
    /\ print_flag \in BOOLEAN
    /\ sink_faulty \in BOOLEAN
    /\ pc = "main"
    /\ r = min_len
    /\ total_perms = 0 /\ current_offset = 0 /\ current_chunk_size = 0
    /\ results_device = NoBuffer /\ results_host = <<>>
    /\ row_idx = 0
    /\ sink = <<>> /\ status = <<>>
    /\ threads = <<>>
    /\ DecoderIdle

\* ------------------------------------------------------------ host actions
\* for r in range(min_len, max_len + 1): generate_permutations_gpu(r, ...),
\* up to the head of its while loop (lines 166-167, 100-107).
ForEnter ==
    /\ pc = "main" /\ r <= max_len
    /\ total_perms' = permutations_count(n, r)
    /\ current_offset' = 0
    /\ status' = Append(status, Ev("generating", <<>>, r, total_perms'))
    /\ pc' = "while"
    /\ UNCHANGED <<cfgvars, r, current_chunk_size, results_device, results_host,
                   row_idx, sink, threads, decvars>>

\* The for loop is over: the program exits normally.
ForExit ==
    /\ pc = "main" /\ r > max_len
    /\ pc' = "done"
    /\ UNCHANGED <<cfgvars, r, total_perms, current_offset, current_chunk_size,
                   results_device, results_host, row_idx, sink, status,
                   threads, decvars>>

\* One pass of the while loop up to the kernel launch (lines 109-120).
LaunchChunk ==
    /\ pc = "while" /\ MoreChunks
    /\ current_chunk_size' = ChunkSize(chunk_size, total_perms, current_offset)
    /\ current_chunk_size' >= 1
    /\ results_device' = DeviceArray(current_chunk_size', r)
    /\ threads' = [t \in 0 .. Blocks(current_chunk_size', threads_per_block)
                                 * threads_per_block - 1 |-> Launched]
    /\ pc' = "sync"
    /\ UNCHANGED <<cfgvars, r, total_perms, current_offset, results_host,
                   row_idx, sink, status, decvars>>

\* The same lines with a chunk size that is not positive: the array has no
\* rows and the launch has no blocks. Whether numba raises for an empty
\* array or an empty launch is outside this repository: every outcome is
\* kept (device_array raises; the launch raises; neither raises). A pass that
\* does not raise leaves current_offset where it was, so the loop never ends;
\* it is followed for MaxSpin passes (each prints one status line).
LaunchDegenerate ==
    /\ pc = "while" /\ MoreChunks
    /\ Len(status) <= MaxSpin
    /\ current_chunk_size' = ChunkSize(chunk_size, total_perms, current_offset)
    /\ current_chunk_size' <= 0
    /\ \/ results_device' = results_device /\ pc' = "crashed"
       \/ results_device' = DeviceArray(current_chunk_size', r)
          /\ pc' \in {"sync", "crashed"}
    /\ threads' = <<>>
    /\ UNCHANGED <<cfgvars, r, total_perms, current_offset, results_host,
                   row_idx, sink, status, decvars>>

\* cuda.synchronize(); results_host = results_device.copy_to_host()
\* (lines 121-124), and the row loop starts.
Synchronize ==
    /\ pc = "sync" /\ AllReturned
    /\ results_host' = results_device.data
    /\ row_idx' = 0
    /\ threads' = <<>>
    /\ pc' = "rows"
    /\ UNCHANGED <<cfgvars, r, total_perms, current_offset, current_chunk_size,
                   results_device, sink, status, decvars>>

\* One iteration of the row loop (lines 127-136).
WriteRow ==
    /\ pc = "rows" /\ ~RowsDone
    /\ LET perm_str == RowString(CHARS, results_host[row_idx + 1]) IN
        /\ sink' = Append(sink, perm_str)
        /\ status' = IF print_flag
                     THEN Append(status, Ev("perm", perm_str, 0, 0))
                     ELSE status
    /\ row_idx' = row_idx + 1
    /\ UNCHANGED <<cfgvars, pc, r, total_perms, current_offset,
                   current_chunk_size, results_device, results_host, threads,
                   decvars>>

\* f_out.write raises (line 132): nothing catches it, the run ends there and
\* the lines written before stay in the file.
WriteFail ==
    /\ pc = "rows" /\ ~RowsDone /\ sink_faulty
    /\ pc' = "crashed"
    /\ UNCHANGED <<cfgvars, r, total_perms, current_offset, current_chunk_size,
                   results_device, results_host, row_idx, sink, status,
                   threads, decvars>>

\* The end of one pass with the progress bar updated in both modes.
AdvanceBarInBothModes ==
    /\ pc = "rows" /\ RowsDone
    /\ current_offset' = NextOffset
    /\ status' = (IF print_flag
                  THEN Append(status, Ev("chunk", <<>>, current_offset', total_perms))
                  ELSE status)
                 \o <<Ev("bar", <<>>, current_offset', total_perms)>>
    /\ pc' = "while"
    /\ UNCHANGED <<cfgvars, r, total_perms, current_chunk_size, results_device,
                   results_host, row_idx, sink, threads, decvars>>

\* The end of one pass of the while loop (lines 138-145).
Advance ==
    /\ pc = "rows" /\ RowsDone
    /\ current_offset' = NextOffset
    /\ status' = Append(status,
                   IF print_flag
                   THEN Ev("chunk", <<>>, current_offset', total_perms)
                   ELSE Ev("bar", <<>>, current_offset', total_perms))
    /\ pc' = "while"
    /\ UNCHANGED <<cfgvars, r, total_perms, current_chunk_size, results_device,
                   results_host, row_idx, sink, threads, decvars>>

\* The while loop is over: the rest of generate_permutations_gpu and of the
\* body of the for loop (lines 148-151, 168).
EndGen ==
    /\ pc = "while" /\ ~MoreChunks
    /\ status' = status
                 \o (IF print_flag THEN <<>> ELSE <<Ev("newline", <<>>, 0, 0)>>)
                 \o <<Ev("finished", <<>>, r, 0), Ev("separator", <<>>, 0, 0)>>
    /\ r' = r + 1
    /\ pc' = "main"
    /\ UNCHANGED <<cfgvars, total_perms, current_offset, current_chunk_size,
                   results_device, results_host, row_idx, sink, threads,
                   decvars>>

\* ------------------------------------------------------------ device actions
\* Thread t runs the kernel up to its position loop (lines 52-64).
WorkerEntry(t) ==
    /\ t \in DOMAIN threads /\ threads[t].pc = "entry"
    /\ threads' = [threads EXCEPT ![t] =
                     KernelExit(KernelEntry(current_offset, t,
                                            Len(results_device.data), n), r)]
    /\ UNCHANGED <<cfgvars, hostvars, decvars>>

\* Thread t runs one iteration of its position loop (lines 66-87).
WorkerStep(t) ==
    /\ t \in DOMAIN threads /\ threads[t].pc = "loop"
    /\ LET k == threads[t]
           c == KernelCharIdx(k, r)
       IN  /\ threads' = [threads EXCEPT ![t] = KernelExit(KernelPosition(k, r), r)]
           /\ results_device' =
                IF c = OutOfBounds THEN results_device
                ELSE [results_device EXCEPT
                        !.data = WriteCell(@, RowOf(k), k.position, c)]
    /\ UNCHANGED <<cfgvars, pc, r, total_perms, current_offset,
                   current_chunk_size, results_host, row_idx, sink, status,
                   decvars>>

Worker(t) == WorkerEntry(t) \/ WorkerStep(t)

Host ==
    \/ ForEnter \/ ForExit \/ LaunchChunk \/ LaunchDegenerate \/ Synchronize
    \/ WriteRow \/ WriteFail \/ Advance \/ EndGen

\* The largest grid a launch can have.
MaxThreads == Blocks(MaxChunk, MaxTPB) * MaxTPB + MaxTPB

Next ==
    \/ ForEnter
    \/ ForExit
    \/ LaunchChunk
    \/ LaunchDegenerate
    \/ Synchronize
    \/ WriteRow
    \/ WriteFail
    \/ Advance
    \/ EndGen
    \/ \E t \in DOMAIN threads : WorkerEntry(t)
    \/ \E t \in DOMAIN threads : WorkerStep(t)

Spec == Init /\ [][Next]_vars

\* The host code runs whenever it can, and the device runs every launched
\* thread to completion.
FairSpec ==
    /\ Spec
    /\ WF_vars(Host)
    /\ \A t \in 0 .. MaxThreads : WF_vars(Worker(t))

\* ------------------------------------------------------------ decoder run
PipelineIdle ==
    /\ CHARS = <<>> /\ min_len = 0 /\ max_len = 0 /\ chunk_size = 0
    /\ threads_per_block = 0 /\ print_flag = FALSE /\ sink_faulty = FALSE
    /\ pc = "decoder" /\ r = 0
    /\ total_perms = 0 /\ current_offset = 0 /\ current_chunk_size = 0
    /\ results_device = NoBuffer /\ results_host = <<>>
    /\ row_idx = 0
    /\ sink = <<>> /\ status = <<>>
    /\ threads = <<>>

DecoderInit ==
    /\ dn \in 1 .. MaxDecodeN
    /\ dr \in 1 .. dn
    /\ dthread = Launched
    /\ drow = [p \in 1 .. dr |-> Uninit]
    /\ dperms = <<>>
    /\ PipelineIdle

\* The thread for the next index i = Len(dperms) < P(n, r) enters the kernel.
DecoderEntry ==
    /\ dthread.pc = "entry"
    /\ Len(dperms) < permutations_count(dn, dr)
    /\ dthread' = KernelExit(KernelEntry(Len(dperms), 0, 1, dn), dr)
    /\ drow' = [p \in 1 .. dr |-> Uninit]
    /\ UNCHANGED <<cfgvars, hostvars, threads, dn, dr, dperms>>

\* One iteration of its position loop.
DecoderStep ==
    /\ dthread.pc = "loop"
    /\ LET c == KernelCharIdx(dthread, dr) IN
        /\ dthread' = KernelExit(KernelPosition(dthread, dr), dr)
        /\ drow' = IF c = OutOfBounds THEN drow
                   ELSE WriteCell(<<drow>>, RowOf(dthread), dthread.position, c)[1]
    /\ UNCHANGED <<cfgvars, hostvars, threads, dn, dr, dperms>>

\* The thread has returned: its row is the permutation of index Len(dperms).
DecoderCollect ==
    /\ dthread.pc = "done"
    /\ dperms' = Append(dperms, drow)
    /\ dthread' = Launched
    /\ UNCHANGED <<cfgvars, hostvars, threads, dn, dr, drow>>

DecoderNext ==
    \/ DecoderEntry
    \/ DecoderStep
    \/ DecoderCollect

DecoderSpec == DecoderInit /\ [][DecoderNext]_vars

\* ------------------------------------------------------------ marker run
\* One kernel thread on one index i of one (n, r), for every alphabet size up
\* to one more than the markers a thread has.
MarkerInit ==
    /\ dn \in 1 .. UsedCapacity + 1
    /\ dr \in 1 .. Min(dn, MaxMarkerLen)
    /\ \E i \in 0 .. permutations_count(dn, dr) - 1 :
          dthread = [Launched EXCEPT !.global_idx = i]
    /\ drow = [p \in 1 .. dr |-> Uninit]
    /\ dperms = <<>>
    /\ PipelineIdle

\* The thread enters the kernel with base_idx = i (a launch of one row).
MarkerEntry ==
    /\ dthread.pc = "entry"
    /\ dthread' = KernelExit(KernelEntry(dthread.global_idx, 0, 1, dn), dr)
    /\ UNCHANGED <<cfgvars, hostvars, threads, dn, dr, drow, dperms>>

MarkerNext ==
    \/ MarkerEntry
    \/ DecoderStep

MarkerSpec == MarkerInit /\ [][MarkerNext]_vars

\* ============================================================== the claims
\* a < b in lexicographic order, for sequences of integers of equal length.
RECURSIVE LexLessFrom(_, _, _)
LexLessFrom(a, b, p) ==
    IF p > Len(a) THEN FALSE
    ELSE IF a[p] # b[p] THEN a[p] < b[p]
    ELSE LexLessFrom(a, b, p + 1)

LexLess(a, b) == LexLessFrom(a, b, 1)

\* C1: for valid (n, r), the rows decoded from the indices 0, 1, ... of
\* [0, P(n,r)) are pairwise distinct sequences of r positions, and there are
\* P(n,r) of them once every index has been decoded.
C1_DecodeInjective ==
    /\ Len(dperms) <= permutations_count(dn, dr)
    /\ \A i, j \in 1 .. Len(dperms) :
          /\ Len(dperms[i]) = dr
          /\ i # j => dperms[i] # dperms[j]
    /\ (dthread.pc = "entry" /\ ~ENABLED DecoderEntry)
          => Cardinality({dperms[i] : i \in 1 .. Len(dperms)})
               = permutations_count(dn, dr)

\* Every index of (n, r) = (4, 3) has been decoded: 24 rows.
C1_Witness ==
    /\ dn = 4 /\ dr = 3
    /\ Len(dperms) = permutations_count(dn, dr)
    /\ Len(dperms) = 24

\* C2: for valid (n, r), the row decoded from i is strictly smaller in
\* lexicographic order than the row decoded from i + 1, and index 0 decodes
\* to (0, 1, ..., r-1).
C2_DecodeAscending ==
    /\ Len(dperms) >= 1 => dperms[1] = [p \in 1 .. dr |-> p - 1]
    /\ \A i \in 1 .. Len(dperms) - 1 : LexLess(dperms[i], dperms[i + 1])

\* All 6 rows of (n, r) = (3, 2) are decoded, the last being (2, 1).
C2_Witness ==
    /\ dn = 3 /\ dr = 2
    /\ Len(dperms) = 6
    /\ dperms[2] = <<0, 2>>
    /\ dperms[6] = <<2, 1>>

\* The string of a row of positions: each position's symbol, concatenated.
PermString(chars, row) == [p \in 1 .. Len(row) |-> chars[row[p] + 1]]

\* The strings of the permutations of length rr, by ascending index.
RefLines(chars, rr) ==
    [i \in 1 .. permutations_count(Len(chars), rr) |->
        PermString(chars, Decode(Len(chars), rr, i - 1))]

\* The reference output: lengths lo .. hi ascending, indices ascending.
RECURSIVE Reference(_, _, _)
Reference(chars, lo, hi) ==
    IF lo > hi THEN <<>>
    ELSE RefLines(chars, lo) \o Reference(chars, lo + 1, hi)

IsPrefix(a, b) == Len(a) <= Len(b) /\ a = SubSeq(b, 1, Len(a))

\* The number of lines of the lengths min_len .. rr - 1.
RECURSIVE LinesBefore(_)
LinesBefore(rr) ==
    IF rr <= min_len THEN 0
    ELSE LinesBefore(rr - 1) + permutations_count(n, rr - 1)

\* Line k (from 1) of Reference(chars, lo, hi), computed without the lines
\* before it.
RECURSIVE ReferenceLine(_, _, _, _)
ReferenceLine(chars, lo, hi, k) ==
    IF lo > hi THEN <<>>
    ELSE LET count == permutations_count(Len(chars), lo) IN
         IF k <= count THEN PermString(chars, Decode(Len(chars), lo, k - 1))
         ELSE ReferenceLine(chars, lo + 1, hi, k - count)

\* C3: in every reachable state the lines written to the sink are a prefix of
\* the reference sequence (lengths ascending, indices ascending within a
\* length): lines are only appended, none is skipped, duplicated or out of
\* order. The sink of an initial state is empty, and every step either leaves
\* the sink as it was or appends the next line of the reference to it; the
\* whole sink is compared with the reference whenever a call returns and
\* when the run ends.
C3_SinkIsReferencePrefix ==
    [][/\ \/ sink' = sink
          \/ /\ Len(sink) < LinesBefore(max_len + 1)
             /\ sink' = Append(sink, ReferenceLine(CHARS, min_len, max_len,
                                                   Len(sink) + 1))
       /\ IsPrefix(sink, sink')
       /\ pc' \in {"main", "done", "crashed"}
             => IsPrefix(sink', Reference(CHARS', min_len', max_len'))]_vars

\* A run over the lengths 2..3 of "abc" in chunks of 2 has written all 12
\* lines.
C3_Witness ==
    /\ pc = "done" /\ n = 3 /\ min_len = 2 /\ max_len = 3 /\ chunk_size = 2
    /\ Len(sink) = 12
    /\ sink[3] = <<"b", "a">>
    /\ sink[12] = <<"c", "b", "a">>

\* C4: when the call for a length has returned, the lines it appended are
\* those the call produces with any other positive chunk size c2, dividing
\* P(n,r) or not, larger than P(n,r) or not: the sink after the lengths
\* min_len .. r-1 is the same for every chunk size.
RECURSIVE OutputWith(_, _, _)
OutputWith(size, lo, hi) ==
    IF lo > hi THEN <<>>
    ELSE ChunkedOutput(CHARS, lo, size) \o OutputWith(size, lo + 1, hi)

C4_ChunkingInvariance ==
    (pc = "main" /\ chunk_size >= 1)
        => \A c2 \in 1 .. MaxChunk + 5 : sink = OutputWith(c2, min_len, r - 1)

\* The call for length 2 over "abc" (P = 6) has returned in a run with
\* chunk_size 1; the comparison covers c2 = 4 (not dividing 6) and 7 (> 6).
C4_Witness ==
    /\ pc = "main" /\ n = 3 /\ min_len = 1 /\ r = 3 /\ chunk_size = 1
    /\ Len(sink) = 9

\* C5: after the barrier, whatever the block width and the interleaving of the
\* threads, row k of the buffer holds the permutation decoded from index
\* current_offset + k.
C5_BufferIndependentOfScheduling ==
    /\ (pc = "sync" /\ AllReturned)
          => /\ Len(results_device.data) = current_chunk_size
             /\ \A k \in 1 .. current_chunk_size :
                   results_device.data[k] = Decode(n, r, current_offset + k - 1)
    /\ pc = "rows"
          => /\ Len(results_host) = current_chunk_size
             /\ \A k \in 1 .. current_chunk_size :
                   results_host[k] = Decode(n, r, current_offset + k - 1)

\* The second chunk of (n, r) = (3, 2), two rows, decoded by blocks of 2
\* threads, has passed the barrier.
C5_Witness ==
    /\ pc = "rows" /\ n = 3 /\ r = 2 /\ threads_per_block = 2
    /\ current_chunk_size = 2 /\ current_offset = 2
    /\ results_host = << <<1, 0>>, <<1, 2>> >>

C7_DecodeOnlyInRange ==
    (1 <= r /\ r <= n /\ chunk_size >= 1)
        => \A t \in DOMAIN threads :
              /\ threads[t].pc # "fault"
              /\ threads[t].pc = "loop"
                    => /\ 0 <= threads[t].global_idx
                       /\ threads[t].global_idx < permutations_count(n, r)
              /\ t >= current_chunk_size => threads[t].pc \in {"entry", "done"}

\* The last chunk of (n, r) = (3, 1) holds one index (2); the block of 2
\* threads has a thread 1 beyond it, which has returned, while thread 0
\* decodes index 2.
C7_Witness ==
    /\ pc = "sync" /\ n = 3 /\ r = 1 /\ threads_per_block = 2
    /\ current_chunk_size = 1 /\ current_offset = 2
    /\ DOMAIN threads = {0, 1}
    /\ threads[1].pc = "done"
    /\ threads[0].pc = "loop" /\ threads[0].global_idx = 2

\* A valid configuration whose sink never fails.
ValidRun ==
    /\ 1 <= min_len /\ min_len <= max_len /\ max_len <= n
    /\ chunk_size >= 1
    /\ ~sink_faulty

\* The number of lines of rr symbols in the sink.
LinesOfLength(rr) == Cardinality({i \in 1 .. Len(sink) : Len(sink[i]) = rr})

\* C8: under fair scheduling of the host and of every launched thread, a run
\* with a valid configuration and no sink failure terminates; at termination
\* the sink holds exactly P(n,r) lines for every r in min_len..max_len (and
\* nothing else); every pass of the while loop strictly increases
\* current_offset, never beyond total_perms, and the loop ends with
\* current_offset = total_perms.
C8_TerminatesWithAllLines ==
    /\ ValidRun => <>(pc = "done")
    /\ []((ValidRun /\ pc = "done")
            => /\ \A rr \in min_len .. max_len :
                     LinesOfLength(rr) = permutations_count(n, rr)
               /\ Len(sink) = LinesBefore(max_len + 1))
    /\ [][(ValidRun /\ pc = "rows" /\ pc' = "while")
            => /\ current_offset' > current_offset
               /\ current_offset' <= total_perms]_vars
    /\ [][(ValidRun /\ pc = "while" /\ pc' = "main")
            => current_offset = total_perms]_vars

\* A valid run over the lengths 1..3 of "abc" in chunks of 2 has ended with
\* its 3 + 6 + 6 lines.
C8_Witness ==
    /\ ValidRun /\ pc = "done"
    /\ n = 3 /\ min_len = 1 /\ max_len = 3 /\ chunk_size = 2
    /\ Len(sink) = 15
    /\ LinesOfLength(1) = 3 /\ LinesOfLength(3) = 6

\* C9: when an append to the sink has failed, every chunk is all-or-nothing
\* in the sink: the chunk being written has none of its lines in the sink
\* (or all of them).
C9_ChunkAllOrNothing ==
    (pc = "crashed" /\ sink_faulty /\ chunk_size >= 1)
        => LET written == Len(sink) - (LinesBefore(r) + current_offset) IN
           written = 0 \/ written = current_chunk_size

\* C10: with a chunk size that is not positive the run is rejected before
\* any enumeration begins: no buffer is allocated, no thread is launched, no
\* line is written, and the chunk loop is never entered.
C10_NonPositiveChunkRejected ==
    chunk_size <= 0
        => /\ ~results_device.live
           /\ threads = <<>>
           /\ sink = <<>>
           /\ pc \notin {"sync", "rows"}

MarkersInside ==
    dthread.pc = "loop"
        => /\ \A m \in EntryTouches(dthread) : 0 <= m /\ m < UsedCapacity
           /\ \A m \in ScanTouches(dthread, dr) : 0 <= m /\ m < UsedCapacity
           /\ KernelCharIdx(dthread, dr) # OutOfBounds

RECURSIVE FallingFactorial(_, _)
FallingFactorial(m, k) ==
    IF k <= 0 THEN 1 ELSE m * FallingFactorial(m - 1, k - 1)

\* The rank of a row of positions among the permutations of length rr of nn
\* symbols: for each position p (from 1), the number of symbols smaller than
\* row[p] not used at the positions before p, times the number of ways to
\* fill the positions after p from the symbols then left.
RECURSIVE RankFrom(_, _, _, _)
RankFrom(row, nn, rr, p) ==
    IF p > rr THEN 0
    ELSE LET smaller == Cardinality({s \in 0 .. row[p] - 1 :
                                       \A q \in 1 .. p - 1 : row[q] # s})
         IN  smaller * FallingFactorial(nn - p, rr - p)
             + RankFrom(row, nn, rr, p + 1)

Rank(row, nn, rr) == RankFrom(row, nn, rr, 1)

\* C13: for every valid (n, r, i), ranking the row decoded from i returns i.
C13_RankOfDecodeIsIndex ==
    \A i \in 1 .. Len(dperms) : Rank(dperms[i], dn, dr) = i - 1

\* Index 13 of (n, r) = (4, 3) has been decoded to (2, 0, 3), whose rank is
\* 2*6 + 0*2 + 1*1 = 13.
C13_Witness ==
    /\ dn = 4 /\ dr = 3 /\ Len(dperms) = 14
    /\ dperms[14] = <<2, 0, 3>>
    /\ Rank(dperms[14], dn, dr) = 13

RECURSIVE Factorial(_)
Factorial(m) == IF m <= 1 THEN 1 ELSE m * Factorial(m - 1)

\* C14: for n >= 1 and 1 <= r <= n, permutations_count(n, r) is the falling
\* factorial n * (n-1) * ... * (n-r+1) = n! / (n-r)!; it is n! for r = n and
\* n for r = 1. The decoder run over (n, r) decodes that many indices.
C14_CountIsFallingFactorial ==
    /\ permutations_count(dn, dr) = FallingFactorial(dn, dr)
    /\ permutations_count(dn, dr) * Factorial(dn - dr) = Factorial(dn)
    /\ dr = dn => permutations_count(dn, dr) = Factorial(dn)
    /\ dr = 1 => permutations_count(dn, dr) = dn
    /\ Len(dperms) <= FallingFactorial(dn, dr)
    /\ (dthread.pc = "entry" /\ ~ENABLED DecoderEntry)
          => Len(dperms) = FallingFactorial(dn, dr)

\* The run over (n, r) = (4, 4) has decoded its 4! = 24 indices and stops.
C14_Witness ==
    /\ dn = 4 /\ dr = 4
    /\ dthread.pc = "entry" /\ ~ENABLED DecoderEntry
    /\ Len(dperms) = 24
    /\ permutations_count(dn, dr) = 24

\* C15: the host copies the buffer and reads its rows only when every thread
\* launched for the chunk has returned: the step that passes the barrier is
\* taken with all threads done, and while rows are read no thread exists.
C15_BarrierBeforeHostRead ==
    [][/\ (pc' = "rows" \/ results_host' # results_host)
             => \A t \in DOMAIN threads : threads[t].pc = "done"
       /\ pc' = "rows" => threads' = <<>>]_vars

\* The host has converted the first of the two rows of a chunk that two
\* blocks of one thread decoded.
C15_Witness ==
    /\ pc = "rows" /\ row_idx = 1 /\ current_chunk_size = 2
    /\ threads_per_block = 1 /\ n = 3 /\ r = 3 /\ current_offset = 4
    /\ threads = <<>>
    /\ sink[Len(sink)] = RowString(CHARS, results_host[1])
    /\ results_host[2] = <<2, 1, 0>>

\* The chunk [current_offset, current_offset + current_chunk_size) of a pass
\* of the while loop is the next piece of a partition of [0, total_perms)
\* into pieces of chunk_size, the last one possibly smaller.
ChunkIsPartitionPiece ==
    /\ 0 <= current_offset
    /\ current_offset % chunk_size = 0
    /\ 1 <= current_chunk_size /\ current_chunk_size <= chunk_size
    /\ current_offset + current_chunk_size <= total_perms
    /\ current_chunk_size < chunk_size
          => current_offset + current_chunk_size = total_perms
    /\ chunk_size > total_perms
          => current_offset = 0 /\ current_chunk_size = total_perms

\* C16: for total = P(n,r) >= 1 and chunk_size >= 1 the successive
\* (current_offset, current_chunk_size) pairs partition [0, total): the
\* first chunk starts at 0, each chunk starts where the previous one ended,
\* every size is in 1 .. chunk_size, every chunk but the last has size
\* chunk_size, the loop ends with the sizes summing to total, and
\* chunk_size > total gives exactly one chunk.
C16_ChunksPartitionRange ==
    [][chunk_size >= 1
         => /\ (pc = "main" /\ pc' = "while") => current_offset' = 0
            /\ pc' \in {"sync", "rows"} => ChunkIsPartitionPiece'
            /\ (pc = "rows" /\ pc' = "while")
                  => current_offset' = current_offset + current_chunk_size
            /\ (pc = "while" /\ pc' = "main")
                  => current_offset = total_perms]_vars

\* The second and last chunk of (n, r) = (3, 1) with chunk_size 2 is [2, 3).
C16_Witness ==
    /\ pc = "rows" /\ n = 3 /\ r = 1 /\ chunk_size = 2 /\ total_perms = 3
    /\ current_offset = 2 /\ current_chunk_size = 1
    /\ row_idx = 1

\* The kinds of the status lines a step has added.
NewStatusKinds ==
    {status'[i].kind : i \in Len(status) + 1 .. Len(status')}

\* C17: the mode is fixed for the run and the two modes exclude each other:
\* print_flag never changes; with print_flag true no progress-bar update
\* (nor the newline that ends the bar) is printed; with print_flag false no
\* permutation string and no per-chunk notice is printed; and in either mode
\* a run that ends has written the reference lines, which do not depend on
\* the mode.
C17_ModesExclusive ==
    [][/\ print_flag' = print_flag
       /\ IsPrefix(status, status')
       /\ print_flag => NewStatusKinds \cap {"bar", "newline"} = {}
       /\ ~print_flag => NewStatusKinds \cap {"perm", "chunk"} = {}
       /\ pc' = "done" => sink' = Reference(CHARS', min_len', max_len')]_vars

\* A verbose run over (n, r) = (2, 2) has ended: it printed its two strings
\* and one chunk notice, and no progress bar.
C17_Witness ==
    /\ pc = "done" /\ print_flag /\ n = 2 /\ min_len = 2 /\ max_len = 2
    /\ chunk_size = 2
    /\ sink = << <<"a", "b">>, <<"b", "a">> >>
    /\ [i \in 1 .. Len(status) |-> status[i].kind]
         = <<"generating", "perm", "perm", "chunk", "finished", "separator">>

\* C18: in quiet mode the progress line is changed only by the host and only
\* between chunks: a progress update is added by the step that ends a pass
\* of the while loop, when no thread exists and every row of the chunk has
\* been appended; it reports the number of lines written so far for the
\* current length, out of a total that is not 0, and never more than the
\* total; a step taken while threads exist adds nothing; and when the loop
\* of a length with P(n,r) >= 1 ends, the last update reported
\* processed = total.
C18_ProgressBetweenChunks ==
    [][~print_flag
         => /\ threads # <<>> => status' = status
            /\ "bar" \in NewStatusKinds
                  => LET e == status'[Len(status')] IN
                     /\ Len(status') = Len(status) + 1
                     /\ pc = "rows" /\ pc' = "while" /\ threads = <<>>
                     /\ row_idx >= current_chunk_size
                     /\ sink' = sink
                     /\ e.cur = Len(sink) - LinesBefore(r)
                     /\ e.tot = total_perms
                     /\ e.tot # 0
                     /\ 0 <= e.cur /\ e.cur <= e.tot
            /\ (pc = "while" /\ pc' = "main" /\ total_perms >= 1)
                  => /\ status[Len(status)].kind = "bar"
                     /\ status[Len(status)].cur = total_perms
                     /\ status[Len(status)].tot = total_perms]_vars

\* A quiet run has just added the update 2/3 after the first chunk of
\* (n, r) = (3, 1); the sink holds the chunk's two lines.
C18_Witness ==
    /\ ~print_flag /\ pc = "while" /\ n = 3 /\ r = 1 /\ min_len = 1
    /\ chunk_size = 2 /\ current_offset = 2
    /\ Len(sink) = 2
    /\ status[Len(status)] = Ev("bar", <<>>, 2, 3)

\* C19: for every valid (n, r, i), at every position of the position loop
\* the thread's choice satisfies 0 <= choice < remaining, remaining being
\* the number of unused symbols, so the scan stops at a char_idx < n on a
\* symbol that was unused (the thread never faults); and the r positions of
\* every decoded row are pairwise distinct and in [0, n).
C19_ChoiceBelowRemaining ==
    /\ dthread.pc # "fault"
    /\ dthread.pc = "loop"
          => /\ dthread.position < dr
             /\ dthread.remaining = dn - dthread.position
             /\ dthread.remaining
                   = Cardinality({s \in DOMAIN dthread.used : ~dthread.used[s]})
             /\ 0 <= KernelChoice(dthread, dr)
             /\ KernelChoice(dthread, dr) < dthread.remaining
             /\ KernelCharIdx(dthread, dr) \in 0 .. dn - 1
             /\ ~dthread.used[KernelCharIdx(dthread, dr)]
    /\ \A i \in 1 .. Len(dperms) :
          /\ \A p \in 1 .. dr : dperms[i][p] \in 0 .. dn - 1
          /\ \A p, q \in 1 .. dr : p # q => dperms[i][p] # dperms[i][q]

\* The thread of the last index (23) of (n, r) = (4, 3) is at its last
\* position: two symbols are left and its choice is 1, the symbol 1.
C19_Witness ==
    /\ dn = 4 /\ dr = 3 /\ dthread.pc = "loop"
    /\ dthread.global_idx = 23 /\ dthread.position = 2
    /\ dthread.remaining = 2
    /\ KernelChoice(dthread, dr) = 1
    /\ KernelCharIdx(dthread, dr) = 1

\* The cells (row, position), from 1, of the device array.
Cells == {<<k, p>> \in (1 .. Len(results_device.data)) \X (1 .. r) : TRUE}

\* C20: in every chunk each cell (k, p) of the freshly allocated buffer is
\* written exactly once before the barrier is passed, by the thread whose
\* grid index is k: the buffer starts with no cell written; a step changes a
\* cell only if the cell was not written yet and the step is the iteration
\* p of thread k, and every iteration of a thread writes its own cell of
\* that position (so no cell is written twice, no two threads write one
\* row); threads whose grid index is >= current_chunk_size never iterate;
\* and when the barrier is passed no cell is left unwritten.
C20_EachCellWrittenOnceByItsThread ==
    [][/\ (pc = "while" /\ pc' = "sync")
             => \A c \in Cells' : results_device'.data[c[1]][c[2]] = Uninit
       /\ (pc = "sync" /\ pc' = "sync")
             => /\ Cells' = Cells
                /\ \A c \in Cells :
                      results_device'.data[c[1]][c[2]]
                         # results_device.data[c[1]][c[2]]
                      => /\ results_device.data[c[1]][c[2]] = Uninit
                         /\ c[1] - 1 \in DOMAIN threads
                         /\ threads[c[1] - 1].pc = "loop"
                         /\ threads[c[1] - 1].position = c[2] - 1
                         /\ threads'[c[1] - 1] # threads[c[1] - 1]
                /\ \A t \in DOMAIN threads :
                      (threads[t].pc = "loop" /\ threads'[t] # threads[t])
                      => /\ t < current_chunk_size
                         /\ <<t + 1, threads[t].position + 1>> \in Cells
                         /\ results_device.data[t + 1][threads[t].position + 1]
                               = Uninit
                         /\ results_device'.data[t + 1][threads[t].position + 1]
                               \in 0 .. n - 1
                         /\ threads'[t].pc \in {"loop", "done"}
                         /\ threads'[t].pc = "loop"
                               => threads'[t].position = threads[t].position + 1
                         /\ threads'[t].pc = "done"
                               => threads[t].position = r - 1
                /\ \A t \in DOMAIN threads :
                      t >= current_chunk_size => threads'[t].pc # "loop"
       /\ (pc = "sync" /\ pc' = "rows")
             => /\ Len(results_device.data) = current_chunk_size
                /\ \A c \in Cells : results_device.data[c[1]][c[2]] # Uninit
                /\ results_host' = results_device.data]_vars

\* In the second chunk of (n, r) = (3, 2), run by one block of 2 threads,
\* thread 1 has written both cells of row 1 and returned while thread 0 has
\* written only its first cell.
C20_Witness ==
    /\ pc = "sync" /\ n = 3 /\ r = 2 /\ chunk_size = 2 /\ threads_per_block = 2
    /\ current_offset = 2
    /\ results_device.data = << <<1, Uninit>>, <<1, 2>> >>
    /\ threads[1].pc = "done"
    /\ threads[0].pc = "loop" /\ threads[0].position = 1

=============================================================================
